---- MODULE Spec2Model ----
(***************************************************************************)
(* A model of sort_vegan_restaurants.py: the script that loads a scraped   *)
(* JSON file, parses every item's multi-line "name" text into a restaurant *)
(* record and writes the records to an output JSON file.                   *)
(*                                                                         *)
(* Text is modelled character by character: a Python str is a sequence of  *)
(* one-character strings, so that split, strip and the three regular       *)
(* expressions of the script are computed, not assumed.  An optional value *)
(* (Python None or a value) is a sequence of length 0 or 1.                *)
(***************************************************************************)
EXTENDS Integers, Sequences, FiniteSets, TLC

(***************************************************************************)
(* Characters and the character classes the script's patterns use.         *)
(***************************************************************************)
DigitChars == <<"0", "1", "2", "3", "4", "5", "6", "7", "8", "9">>

Digit == {DigitChars[k] : k \in 1..Len(DigitChars)}

Upper == {"A", "B", "C", "D", "E", "F", "G", "H", "I", "J", "K", "L", "M",
          "N", "O", "P", "Q", "R", "S", "T", "U", "V", "W", "X", "Y", "Z"}

Lower == {"a", "b", "c", "d", "e", "f", "g", "h", "i", "j", "k", "l", "m",
          "n", "o", "p", "q", "r", "s", "t", "u", "v", "w", "x", "y", "z"}

\* What str.strip() removes and what \s matches (the ASCII part used here).
Whitespace == {" ", "\t", "\n", "\r"}

\* The class [A-Za-z0-9\-\/ ] of the cuisines pattern.
CuisineClass == Upper \cup Lower \cup Digit \cup {"-", "/", " "}

\* The class [.!?] of the sentence-break pattern.
SentenceEnd == {".", "!", "?"}

DigitVal(c) == (CHOOSE k \in 1..Len(DigitChars) : DigitChars[k] = c) - 1

(***************************************************************************)
(* Python's optional values.                                               *)
(***************************************************************************)
None == <<>>

Some(v) == <<v>>

(***************************************************************************)
(* str.strip, str.split(sep), the substring test and " ".join.             *)
(***************************************************************************)
RECURSIVE lstrip(_)
lstrip(s) ==
    IF s # <<>> /\ Head(s) \in Whitespace THEN lstrip(Tail(s)) ELSE s

RECURSIVE rstrip(_)
rstrip(s) ==
    IF s # <<>> /\ s[Len(s)] \in Whitespace
    THEN rstrip(SubSeq(s, 1, Len(s) - 1))
    ELSE s

strip(s) == rstrip(lstrip(s))

\* s.split(sep) for a one-character separator: always at least one piece.
RECURSIVE split(_, _)
split(s, sep) ==
    IF \E k \in 1..Len(s) : s[k] = sep
    THEN LET k == CHOOSE j \in 1..Len(s) :
                      s[j] = sep /\ \A m \in 1..(j - 1) : s[m] # sep
         IN  <<SubSeq(s, 1, k - 1)>> \o split(SubSeq(s, k + 1, Len(s)), sep)
    ELSE <<s>>

\* pat in s
Contains(s, pat) ==
    \E k \in 0..(Len(s) - Len(pat)) : SubSeq(s, k + 1, k + Len(pat)) = pat

\* " ".join(ls)
RECURSIVE join(_)
join(ls) ==
    IF ls = <<>> THEN <<>>
    ELSE IF Len(ls) = 1 THEN ls[1]
    ELSE ls[1] \o <<" ">> \o join(Tail(ls))

\* [f.strip() for f in s.split(sep) if f.strip()]
StrippedNonEmpty(s, sep) ==
    LET pieces == split(s, sep)
        stripped == [k \in 1..Len(pieces) |-> strip(pieces[k])]
    IN  SelectSeq(stripped, LAMBDA f : f # <<>>)

\* The position after the longest run of characters of cls starting at p.
RECURSIVE RunEnd(_, _, _)
RunEnd(s, p, cls) ==
    IF p <= Len(s) /\ s[p] \in cls THEN RunEnd(s, p + 1, cls) ELSE p

(***************************************************************************)
(* int(digits) and float(int_digits "." frac_digits).  A float is the pair *)
(* <<mantissa, scale>> standing for mantissa / 10^scale, with no trailing  *)
(* zero in the fraction, so that "4.5" and "4.50" are the same number.     *)
(***************************************************************************)
RECURSIVE int(_)
int(ds) ==
    IF ds = <<>> THEN 0
    ELSE 10 * int(SubSeq(ds, 1, Len(ds) - 1)) + DigitVal(ds[Len(ds)])

RECURSIVE NormalFloat(_, _)
NormalFloat(mantissa, scale) ==
    IF scale > 0 /\ mantissa % 10 = 0
    THEN NormalFloat(mantissa \div 10, scale - 1)
    ELSE <<mantissa, scale>>

float(ds, fs) == NormalFloat(int(ds \o fs), Len(fs))

\* re.match(r'(\d+\.\d+)\s+\((\d+)\)', line): None, or the groups.  Every
\* repetition is followed by a character outside its class, so the greedy
\* runs are the only way to match.
rating_reviews_match(line) ==
    LET a == RunEnd(line, 1, Digit)            \* after the integer part
        b == RunEnd(line, a + 1, Digit)        \* after the fraction
        c == RunEnd(line, b, Whitespace)       \* after \s+
        d == RunEnd(line, c + 1, Digit)        \* after the review count
    IN  IF /\ a > 1
           /\ a <= Len(line) /\ line[a] = "."
           /\ b > a + 1
           /\ c > b
           /\ c <= Len(line) /\ line[c] = "("
           /\ d > c + 1
           /\ d <= Len(line) /\ line[d] = ")"
        THEN Some([int_part |-> SubSeq(line, 1, a - 1),
                   frac_part |-> SubSeq(line, a + 1, b - 1),
                   count |-> SubSeq(line, c + 1, d - 1)])
        ELSE None

\* re.match(r'\+\d{1,3}-\d+', line) is not None: a prefix match.  The 1 to 3
\* digits must be followed by the hyphen, so the digit run itself has 1 to 3
\* digits.
MaxCountryDigits == 3

phone_match(line) ==
    LET a == RunEnd(line, 2, Digit)
    IN  /\ Len(line) >= 1 /\ line[1] = "+"
        /\ a - 2 >= 1 /\ a - 2 <= MaxCountryDigits
        /\ a <= Len(line) /\ line[a] = "-"
        /\ a + 1 <= Len(line) /\ line[a + 1] \in Digit

\* re.match(r"((?:[A-Za-z0-9\-\/ ]+(?:,\s*)?)+?)\s*([A-Z].*)", text, re.DOTALL):
\* the match the backtracking matcher finds first.
\*
\* The outer repetition is lazy and its parts are greedy.  After a repetition
\* has ended at position r the matcher first tries to leave the loop (white
\* space, then an upper-case letter), and only then another repetition; within
\* a repetition it tries the longest class run first, then the comma with the
\* most white space.  What is found from r depends on r alone, so it is
\* tabulated from the end of the text backwards: tab[r] is None, or
\* Some(<<r2, p>>) where group 1 ends before r2 and group 2 starts at p.

\* Leaving the loop at r: \s* takes all the white space (giving some back
\* leaves white space, never a letter), then [A-Z].
ExitAt(text, r) ==
    LET p == RunEnd(text, r, Whitespace)
    IN  IF p <= Len(text) /\ text[p] \in Upper THEN Some(<<r, p>>) ELSE None

\* The first success among tab[hi], tab[hi - 1], ..., tab[lo].
RECURSIVE FirstDown(_, _, _)
FirstDown(tab, hi, lo) ==
    IF hi < lo THEN None
    ELSE IF tab[hi] # None THEN tab[hi]
    ELSE FirstDown(tab, hi - 1, lo)

\* A repetition whose class run ended at q: the optional comma group with
\* its white space (longest first), then without the group.
AfterRun(text, q, tab) ==
    IF q <= Len(text) /\ text[q] = ","
    THEN LET viaComma == FirstDown(tab, RunEnd(text, q + 1, Whitespace), q + 1)
         IN  IF viaComma # None THEN viaComma ELSE tab[q]
    ELSE tab[q]

\* A repetition starting at pos: class runs from the longest (ending at q)
\* down to one character.
RECURSIVE IterFrom(_, _, _, _)
IterFrom(text, pos, q, tab) ==
    IF q <= pos THEN None
    ELSE LET res == AfterRun(text, q, tab)
         IN  IF res # None THEN res ELSE IterFrom(text, pos, q - 1, tab)

\* tab[r]: leave the loop at r, else one more repetition from r.
AfterAt(text, r, tab) ==
    LET out == ExitAt(text, r)
    IN  IF out # None THEN out
        ELSE IterFrom(text, r, RunEnd(text, r, CuisineClass), tab)

RECURSIVE AfterTable(_, _, _)
AfterTable(text, r, tab) ==
    IF r = 0 THEN tab
    ELSE AfterTable(text, r - 1, [tab EXCEPT ![r] = AfterAt(text, r, tab)])

cuisines_desc_split_match(text) ==
    LET n == Len(text)
        tab == AfterTable(text, n + 1, [r \in 1..(n + 1) |-> None])
        m == IterFrom(text, 1, RunEnd(text, 1, CuisineClass), tab)
    IN  IF m = None THEN None
        ELSE Some([group1 |-> SubSeq(text, 1, m[1][1] - 1),
                   group2 |-> SubSeq(text, m[1][2], n)])

\* re.search(r'[.!?]\s+[A-Z]', text) is not None
sentence_break(text) ==
    \E k \in 1..Len(text) :
        LET p == RunEnd(text, k + 1, Whitespace)
        IN  /\ text[k] \in SentenceEnd
            /\ p > k + 1
            /\ p <= Len(text) /\ text[p] \in Upper

(***************************************************************************)
(* The literals the parser compares lines with.                            *)
(***************************************************************************)
\* "Read Reviews"
ReadReviewsText == <<"R", "e", "a", "d", " ", "R", "e", "v", "i", "e", "w", "s">>

\* "Closed"
ClosedText == <<"C", "l", "o", "s", "e", "d">>

\* "Open Now"
OpenNowText == <<"O", "p", "e", "n", " ", "N", "o", "w">>

\* "Partner"
PartnerText == <<"P", "a", "r", "t", "n", "e", "r">>

(***************************************************************************)
(* Python's 0-based indexing and slicing of a list.                        *)
(***************************************************************************)
At(ls, k) == ls[k + 1]

\* ls[from:to] for 0 <= from <= to <= len(ls)
Slice(ls, from, to) == SubSeq(ls, from + 1, to)

\* The truth value of an optional string: None and "" are false.
Truthy(opt) == opt # None /\ opt[1] # <<>>

(***************************************************************************)
(* The parse of one item's "name" text: the body of the item loop from the *)
(* split into lines to the record that is appended.                        *)
(***************************************************************************)
\* lines = [line.strip() for line in item["name"].split('\n') if line.strip()]
Lines(name) == StrippedNonEmpty(name, "\n")

\* The dictionary a parse starts from.
NewRestaurantData ==
    [restaurant_name |-> None,
     rating |-> None,
     num_reviews |-> None,
     establishment_type |-> None,
     status |-> None,
     is_partner |-> FALSE,
     cuisines_features |-> <<>>,
     description |-> None,
     phone_number |-> None,
     address |-> None]

\* Step 1: the name, the rating line and the establishment type.
TopElements(rd, lines) ==
    LET r1 == IF Len(lines) >= 1
              THEN [rd EXCEPT !.restaurant_name = Some(At(lines, 0))]
              ELSE rd
        m == IF Len(lines) >= 2 THEN rating_reviews_match(At(lines, 1)) ELSE None
        r2 == IF m # None
              THEN [r1 EXCEPT !.rating = Some(float(m[1].int_part, m[1].frac_part)),
                              !.num_reviews = Some(int(m[1].count))]
              ELSE r1
    IN  IF Len(lines) >= 3
        THEN [r2 EXCEPT !.establishment_type = Some(At(lines, 2))]
        ELSE r2

\* The scan for the first line containing "Read Reviews", from index k on:
\* its index, or -1.
RECURSIVE ScanReadReviews(_, _)
ScanReadReviews(lines, k) ==
    IF k >= Len(lines) THEN -1
    ELSE IF Contains(At(lines, k), ReadReviewsText) THEN k
    ELSE ScanReadReviews(lines, k + 1)

\* The scan without its break: the index of the last such line, or -1.
RECURSIVE ScanLastReadReviews(_, _, _)
ScanLastReadReviews(lines, k, found) ==
    IF k >= Len(lines) THEN found
    ELSE IF Contains(At(lines, k), ReadReviewsText)
    THEN ScanLastReadReviews(lines, k + 1, k)
    ELSE ScanLastReadReviews(lines, k + 1, found)

read_reviews_idx_no_break(lines) == ScanLastReadReviews(lines, 0, -1)

read_reviews_idx(lines) == ScanReadReviews(lines, 0)

\* Step 2: the address and the phone number, counted back from the anchor.
BottomElements(rd, lines) ==
    LET idx == read_reviews_idx(lines)
        r1 == IF idx # -1 /\ idx - 1 >= 0
              THEN [rd EXCEPT !.address = Some(At(lines, idx - 1))]
              ELSE rd
    IN  IF idx # -1 /\ idx - 2 >= 0 /\ phone_match(At(lines, idx - 2))
        THEN [r1 EXCEPT !.phone_number = Some(At(lines, idx - 2))]
        ELSE r1

start_content_idx == 3

end_content_idx(rd, lines) ==
    read_reviews_idx(lines)
        - (IF Truthy(rd.phone_number) THEN 1 ELSE 0)
        - (IF Truthy(rd.address) THEN 1 ELSE 0)

\* The split of the remaining middle text into cuisines and description.
CuisinesAndDescription(rd, text) ==
    LET m == cuisines_desc_split_match(text)
    IN  IF m # None
        THEN [rd EXCEPT !.cuisines_features =
                            StrippedNonEmpty(strip(m[1].group1), ","),
                        !.description = Some(strip(m[1].group2))]
        ELSE IF Contains(text, <<",">>) /\ ~sentence_break(text)
        THEN [rd EXCEPT !.cuisines_features = StrippedNonEmpty(text, ","),
                        !.description = None]
        ELSE [rd EXCEPT !.description = Some(text),
                        !.cuisines_features = <<>>]

\* Step 3: status, partner flag, cuisines and description of the middle block.
MiddleContent(rd, lines) ==
    LET stop == end_content_idx(rd, lines)
    IN  IF start_content_idx < stop
        THEN LET middle_content_lines == Slice(lines, start_content_idx, stop)
                 n == Len(middle_content_lines)
                 hasStatus == /\ 0 < n
                              /\ At(middle_content_lines, 0) \in {ClosedText, OpenNowText}
                 r1 == IF hasStatus
                       THEN [rd EXCEPT !.status = Some(At(middle_content_lines, 0))]
                       ELSE rd
                 idx1 == IF hasStatus THEN 1 ELSE 0
                 hasPartner == /\ idx1 < n
                               /\ At(middle_content_lines, idx1) = PartnerText
                 r2 == IF hasPartner THEN [r1 EXCEPT !.is_partner = TRUE] ELSE r1
                 current_middle_idx == IF hasPartner THEN idx1 + 1 ELSE idx1
                 remaining_content_block_text ==
                     strip(join(Slice(middle_content_lines, current_middle_idx, n)))
             IN  CuisinesAndDescription(r2, remaining_content_block_text)
        ELSE rd

\* The record built from a "name" text, starting from the dictionary rd.
ParseLines(rd, lines) ==
    MiddleContent(BottomElements(TopElements(rd, lines), lines), lines)

ParseName(name) == ParseLines(NewRestaurantData, Lines(name))

(***************************************************************************)
(* The inputs.  An item of data["selection1"] is a JSON value: kind is its *)
(* type, has_name says whether "name" in item holds (a key of a dict, a    *)
(* substring of a str, an element of a list), name is the value under the  *)
(* key and reviews the optional single-string "reviews" payload.           *)
(***************************************************************************)
Item(kind, has_name, name, reviews) ==
    [kind |-> kind, has_name |-> has_name, name |-> name, reviews |-> reviews]

AbsentName == [type |-> "absent", text |-> <<>>]

StrName(text) == [type |-> "str", text |-> text]

DictItem(text) == Item("dict", TRUE, StrName(text), None)

\* "A"
LineName == <<"A">>

\* "4.5 (12)"
LineRating == <<"4", ".", "5", " ", "(", "1", "2", ")">>

\* "4 stars"
LineNoRating == <<"4", " ", "s", "t", "a", "r", "s">>

\* "Cafe"
LineType == <<"C", "a", "f", "e">>

\* "Vegan, Bio Nice place."
LineBlob == <<"V", "e", "g", "a", "n", ",", " ", "B", "i", "o", " ", "N", "i", "c", "e", " ", "p", "l", "a", "c", "e", ".">>

\* "vegan, bio"
LineTags == <<"v", "e", "g", "a", "n", ",", " ", "b", "i", "o">>

\* "Nice, really. Come"
LineProse == <<"N", "i", "c", "e", ",", " ", "r", "e", "a", "l", "l", "y", ".", " ", "C", "o", "m", "e">>

\* "+33-12"
LinePhone == <<"+", "3", "3", "-", "1", "2">>

\* "+1234-5"
LineNoPhone == <<"+", "1", "2", "3", "4", "-", "5">>

\* "1 Rue X"
LineAddress == <<"1", " ", "R", "u", "e", " ", "X">>

\* "Read Reviews (3)"
LineAnchorMore == <<"R", "e", "a", "d", " ", "R", "e", "v", "i", "e", "w", "s", " ", "(", "3", ")">>

\* " \tB "
LinePadded == <<" ", "\t", "B", " ">>

\* " "
LineBlank == <<" ">>

\* The text of the documented example: "Chez Vert", "4.5 (120)",
\* "Vegan Restaurant", "Open Now", "Partner",
\* "Vegan, Organic Lovely spot near the river.", "+33-123456789",
\* "12 Rue de Paris", "Read Reviews", one per line.
ChezVertText ==
    <<"C", "h", "e", "z", " ", "V", "e", "r", "t", "\n", "4", ".", "5",
      " ", "(", "1", "2", "0", ")", "\n", "V", "e", "g", "a", "n", " ",
      "R", "e", "s", "t", "a", "u", "r", "a", "n", "t", "\n", "O", "p",
      "e", "n", " ", "N", "o", "w", "\n", "P", "a", "r", "t", "n", "e",
      "r", "\n", "V", "e", "g", "a", "n", ",", " ", "O", "r", "g", "a",
      "n", "i", "c", " ", "L", "o", "v", "e", "l", "y", " ", "s", "p", "o",
      "t", " ", "n", "e", "a", "r", " ", "t", "h", "e", " ", "r", "i", "v",
      "e", "r", ".", "\n", "+", "3", "3", "-", "1", "2", "3", "4", "5",
      "6", "7", "8", "9", "\n", "1", "2", " ", "R", "u", "e", " ", "d",
      "e", " ", "P", "a", "r", "i", "s", "\n", "R", "e", "a", "d", " ",
      "R", "e", "v", "i", "e", "w", "s">>

\* "Great food" and "Friendly staff" on two lines.
TwoReviewsText ==
    <<"G", "r", "e", "a", "t", " ", "f", "o", "o", "d", "\n", "F", "r",
      "i", "e", "n", "d", "l", "y", " ", "s", "t", "a", "f", "f">>

\* ls joined with line feeds: the raw text whose lines are ls.
RECURSIVE RawText(_)
RawText(ls) ==
    IF ls = <<>> THEN <<>>
    ELSE IF Len(ls) = 1 THEN ls[1]
    ELSE ls[1] \o <<"\n">> \o RawText(Tail(ls))

SeqsUpTo(S, n) == UNION {[1..k -> S] : k \in 0..n}

\* Bounds of the generated texts.
MaxShortLines == 3

MaxMiddleLines == 2

MaxItems == 3

\* Short texts: every sequence of at most MaxShortLines raw lines, with
\* blank and padded lines and the anchor at any index.
ShortVocab ==
    {LineName, LineRating, LinePhone, ReadReviewsText, LinePadded, LineBlank}

ShortTexts == {RawText(ls) : ls \in SeqsUpTo(ShortVocab, MaxShortLines)}

\* Long texts: the three leading lines, a middle block and a suffix.
Prefixes ==
    {<<LineName, LineRating, LineType>>, <<LineName, LineNoRating, LineType>>}

MidVocab ==
    {OpenNowText, ClosedText, PartnerText, LineBlob, LineTags, LineProse}

Suffixes ==
    {<<>>,
     <<ReadReviewsText>>,
     <<LineAddress, ReadReviewsText>>,
     <<LinePhone, LineAddress, ReadReviewsText>>,
     <<LineNoPhone, LineAddress, LineAnchorMore>>,
     <<LinePhone, LineAddress, ReadReviewsText, LineName, ReadReviewsText>>}

LongTexts ==
    {RawText(p \o m \o s) :
        p \in Prefixes, m \in SeqsUpTo(MidVocab, MaxMiddleLines), s \in Suffixes}

\* The items of the batches: one of each shape the loop tells apart.
ItemNoName == Item("dict", FALSE, AbsentName, None)

ItemNullName == Item("dict", TRUE, [type |-> "null", text |-> <<>>], None)

ItemListName == Item("dict", TRUE, [type |-> "list", text |-> <<>>], None)

ItemNotObject == Item("null", FALSE, AbsentName, None)

ItemString == Item("str", FALSE, AbsentName, None)

ItemStringWithName == Item("str", TRUE, AbsentName, None)

ItemEmpty == DictItem(<<>>)

ItemBlank == DictItem(RawText(<<LineBlank, <<>>, <<"\t">>>>))

ItemOneLine == DictItem(LineName)

ItemChezVert == DictItem(ChezVertText)

ItemNoAnchor ==
    DictItem(RawText(<<LineName, LineRating, LineType, OpenNowText, PartnerText>>))

ItemStatusOnly ==
    DictItem(RawText(<<LineName, LineRating, LineType, OpenNowText, PartnerText,
                       LineAddress, ReadReviewsText>>))

ItemWithReviews == Item("dict", TRUE, StrName(LineName), Some(TwoReviewsText))

BatchItems ==
    {ItemNoName, ItemNullName, ItemListName, ItemNotObject, ItemString,
     ItemEmpty, ItemOneLine, ItemChezVert, ItemNoAnchor, ItemStatusOnly,
     ItemWithReviews}

Batches == SeqsUpTo(BatchItems, MaxItems)

AllItems ==
    BatchItems \cup {ItemStringWithName, ItemBlank}
        \cup {DictItem(t) : t \in ShortTexts \cup LongTexts}

SingleItemBatches == {<<it>> : it \in AllItems}

(***************************************************************************)
(* The state of the script.                                                *)
(*   pc                  where the script is: "start" before the input is  *)
(*                       read, "loop" inside the item loop, "write" after  *)
(*                       it, "done" once the output file is written,       *)
(*                       "failed" after one of the outer except handlers   *)
(*   data                data["selection1"], once loaded                   *)
(*   i                   the number of items the loop has gone through;    *)
(*                       the item being processed has Python index i       *)
(*   parsed_restaurants  the list of records                               *)
(*   restaurant_data     the module-level name restaurant_data: unbound    *)
(*                       (None) or the dictionary of the last parse        *)
(*   stdout              what was printed: [kind, index] per message       *)
(*   output_file         the output file: None until written               *)
(* A KeyboardInterrupt and a failing write of the output file come from    *)
(* outside the script and are not modelled.                                *)
(***************************************************************************)
VARIABLES pc, data, i, parsed_restaurants, restaurant_data, stdout, output_file

vars == <<pc, data, i, parsed_restaurants, restaurant_data, stdout, output_file>>

Message(kind, index) == [kind |-> kind, index |-> index]

\* "name" not in item raises TypeError for a value that is no container.
NameTestRaises(item) == item.kind \in {"null", "num"}

\* "name" in item
HasName(item) == item.has_name

\* item["name"].split('\n') raises: item is no dict, or the value no str.
SplitRaises(item) == item.kind # "dict" \/ item.name.type # "str"

\* item.get('name', '')[:500] raises inside the handler: item has no get,
\* or the value cannot be sliced.
HandlerRaises(item) ==
    item.kind # "dict" \/ item.name.type \notin {"str", "list", "absent"}

\* How the try block of one item ends.
BodyOutcome(item) ==
    IF NameTestRaises(item) THEN "raise"
    ELSE IF ~HasName(item) THEN "skip"
    ELSE IF SplitRaises(item) THEN "raise"
    ELSE "append"

\* The order of the keys in a record, which json.dumps keeps.
FieldOrder ==
    <<"restaurant_name", "rating", "num_reviews", "establishment_type", "status",
      "is_partner", "cuisines_features", "description", "phone_number", "address">>

\* json.dumps of one record: its key/value pairs in order.
DumpRecord(rec) ==
    [k \in 1..Len(FieldOrder) |-> [key |-> FieldOrder[k], value |-> rec[FieldOrder[k]]]]

\* json.dumps(parsed_restaurants)
dumps(records) == [k \in 1..Len(records) |-> DumpRecord(records[k])]

\* The progress line of the item with Python index k.
Progress(k) == Message("progress", k + 1)

\* The warning with the index not counted from 1.
MissingNameWarningFromZero(k) == Message("warning", k)

\* The warning of an item without "name".
MissingNameWarning(k) == Message("warning", k + 1)

\* parsed_restaurants.append(rec)
AppendRecord(records, rec) == Append(records, rec)

\* The dictionary of the last parse used again: a dict made once, before
\* the loop.
StaleRestaurantData ==
    IF restaurant_data = None THEN NewRestaurantData ELSE restaurant_data[1]

\* The dictionary a new parse starts from: a new dict literal per item.
FreshRestaurantData == NewRestaurantData

\* Where the loop goes after the item with Python index k.
AfterItem(k) == IF k + 1 < Len(data) THEN "loop" ELSE "write"

Init ==
    /\ pc = "start"
    /\ data = <<>>
    /\ i = 0
    /\ parsed_restaurants = <<>>
    /\ restaurant_data = None
    /\ stdout = <<>>
    /\ output_file = None

\* open() raises FileNotFoundError.
LoadMissingFile ==
    /\ pc = "start"
    /\ pc' = "failed"
    /\ stdout' = stdout \o <<Message("attempt", 0), Message("file_not_found", 0)>>
    /\ UNCHANGED <<data, i, parsed_restaurants, restaurant_data, output_file>>

\* json.load raises JSONDecodeError.
LoadBadJson ==
    /\ pc = "start"
    /\ pc' = "failed"
    /\ stdout' = stdout \o <<Message("attempt", 0), Message("json_error", 0)>>
    /\ UNCHANGED <<data, i, parsed_restaurants, restaurant_data, output_file>>

\* The top-level value is a number or null: "selection1" not in data raises
\* TypeError, which the last handler catches.
LoadScalar ==
    /\ pc = "start"
    /\ pc' = "failed"
    /\ stdout' = stdout \o <<Message("attempt", 0), Message("unexpected_error", 0)>>
    /\ UNCHANGED <<data, i, parsed_restaurants, restaurant_data, output_file>>

\* No "selection1" list in the input: an error is printed and the script goes
\* on to write the (empty) list.
LoadNoSelection ==
    /\ pc = "start"
    /\ pc' = "write"
    /\ stdout' = stdout \o <<Message("attempt", 0), Message("no_selection1", 0)>>
    /\ UNCHANGED <<data, i, parsed_restaurants, restaurant_data, output_file>>

\* The input holds a "selection1" list, one of inputs.
LoadOk(inputs) ==
    /\ pc = "start"
    /\ \E d \in inputs :
        /\ data' = d
        /\ pc' = IF Len(d) > 0 THEN "loop" ELSE "write"
        /\ stdout' = stdout \o <<Message("attempt", 0), Message("found", Len(d))>>
    /\ UNCHANGED <<i, parsed_restaurants, restaurant_data, output_file>>

\* An item without "name": a warning, and on to the next item.
ItemMissingName ==
    /\ pc = "loop"
    /\ BodyOutcome(data[i + 1]) = "skip"
    /\ stdout' = stdout \o <<Progress(i), MissingNameWarning(i)>>
    /\ i' = i + 1
    /\ pc' = AfterItem(i)
    /\ UNCHANGED <<data, parsed_restaurants, restaurant_data, output_file>>

\* An item whose "name" is a string: it is parsed and its record appended.
ItemParsed ==
    /\ pc = "loop"
    /\ BodyOutcome(data[i + 1]) = "append"
    /\ LET rec == ParseLines(FreshRestaurantData, Lines(data[i + 1].name.text))
       IN  /\ restaurant_data' = Some(rec)
           /\ parsed_restaurants' = AppendRecord(parsed_restaurants, rec)
    /\ stdout' = Append(stdout, Progress(i))
    /\ i' = i + 1
    /\ pc' = AfterItem(i)
    /\ UNCHANGED <<data, output_file>>

\* The try block raises and the handler prints both its lines: on to the
\* next item.
ItemErrorCaught ==
    /\ pc = "loop"
    /\ BodyOutcome(data[i + 1]) = "raise"
    /\ ~HandlerRaises(data[i + 1])
    /\ stdout' = stdout \o <<Progress(i), Message("item_error", i + 1),
                             Message("item_content", i + 1)>>
    /\ i' = i + 1
    /\ pc' = AfterItem(i)
    /\ UNCHANGED <<data, parsed_restaurants, restaurant_data, output_file>>

\* The try block raises and the handler's second print raises in turn: the
\* exception leaves the loop and the last handler of the script catches it.
\* Nothing is written.
ItemErrorAbort ==
    /\ pc = "loop"
    /\ BodyOutcome(data[i + 1]) = "raise"
    /\ HandlerRaises(data[i + 1])
    /\ stdout' = stdout \o <<Progress(i), Message("item_error", i + 1),
                             Message("unexpected_error", i + 1)>>
    /\ pc' = "failed"
    /\ UNCHANGED <<data, i, parsed_restaurants, restaurant_data, output_file>>

\* The records are serialised and written to the output file.
WriteOutput ==
    /\ pc = "write"
    /\ output_file' = Some(dumps(parsed_restaurants))
    /\ stdout' = Append(stdout, Message("saved", 0))
    /\ pc' = "done"
    /\ UNCHANGED <<data, i, parsed_restaurants, restaurant_data>>

Common ==
    \/ LoadMissingFile
    \/ LoadBadJson
    \/ LoadScalar
    \/ LoadNoSelection
    \/ ItemMissingName
    \/ ItemParsed
    \/ ItemErrorCaught
    \/ ItemErrorAbort
    \/ WriteOutput

\* Batches of up to MaxItems items.
Next == LoadOk(Batches) \/ Common

Spec == Init /\ [][Next]_vars

\* One item, of every text generated.
NextItem == LoadOk(SingleItemBatches) \/ Common

SpecItem == Init /\ [][NextItem]_vars

(***************************************************************************)
(* What the properties below are stated with.                              *)
(***************************************************************************)
\* The item yields a record: it is an object whose "name" is a string.
Yields(item) == item.kind = "dict" /\ item.has_name /\ item.name.type = "str"

\* The number of records the first k items yield: the place in the result
\* of the record of item k, when it yields one.
Pos(k) == Cardinality({m \in 1..k : Yields(data[m])})

\* The lines of item k.
ItemLines(k) == Lines(data[k].name.text)

\* The indices (from 1) of the lines that contain "Read Reviews".
Anchors(ls) == {k \in 1..Len(ls) : Contains(ls[k], ReadReviewsText)}

FirstAnchor(ls) == CHOOSE a \in Anchors(ls) : \A b \in Anchors(ls) : a <= b

\* The phone pattern, stated once more: "+", one to three digits, "-", a digit.
IsPhone(line) ==
    \E k \in 1..3 :
        /\ Len(line) >= k + 3
        /\ line[1] = "+"
        /\ \A j \in 2..(k + 1) : line[j] \in Digit
        /\ line[k + 2] = "-"
        /\ line[k + 3] \in Digit

\* What was printed that is a diagnostic: everything but the progress lines
\* and the messages of the start and the end of the run.
IsDiagnostic(m) ==
    m.kind \in {"warning", "item_error", "item_content", "unexpected_error"}

\* The reviews the specification expects of a single-string payload: one
\* review per non-empty trimmed line, with only the text set.
ExpectedReviews(text) ==
    LET ls == StrippedNonEmpty(text, "\n")
    IN  [k \in 1..Len(ls) |-> [text |-> ls[k], rating |-> None, date |-> None]]

\* A field of a record holds no value: None, or the empty list.
IsNullField(rec, f) == IF f = "is_partner" THEN FALSE ELSE rec[f] = None

\* The keys of a serialised record.
KeysOf(dumped) == {dumped[k].key : k \in 1..Len(dumped)}

\* The record the documented example is to give.
ChezVertExpected ==
    [restaurant_name |-> Some(<<"C", "h", "e", "z", " ", "V", "e", "r", "t">>),
     rating |-> Some(<<45, 1>>),
     num_reviews |-> Some(120),
     establishment_type |->
         Some(<<"V", "e", "g", "a", "n", " ",
                "R", "e", "s", "t", "a", "u", "r", "a", "n", "t">>),
     status |-> Some(OpenNowText),
     is_partner |-> TRUE,
     cuisines_features |->
         <<<<"V", "e", "g", "a", "n">>, <<"O", "r", "g", "a", "n", "i", "c">>>>,
     description |->
         Some(<<"L", "o", "v", "e", "l", "y", " ", "s", "p", "o", "t", " ",
                "n", "e", "a", "r", " ", "t", "h", "e", " ",
                "r", "i", "v", "e", "r", ".">>),
     phone_number |->
         Some(<<"+", "3", "3", "-", "1", "2", "3", "4", "5", "6", "7", "8", "9">>),
     address |->
         Some(<<"1", "2", " ", "R", "u", "e", " ", "d", "e", " ",
                "P", "a", "r", "i", "s">>)]

(***************************************************************************)
(* C1.  The documented example: the item "Chez Vert" must parse to the     *)
(* record with cuisines_features = ["Vegan", "Organic"] and description    *)
(* "Lovely spot near the river.", the cuisines being the longest run of    *)
(* comma-separated tokens before the description.                          *)
(***************************************************************************)
C1_ChezVertParsesAsDocumented ==
    (i >= 1 /\ data[1] = ItemChezVert) =>
        (Len(parsed_restaurants) >= 1 /\ parsed_restaurants[1] = ChezVertExpected)

(***************************************************************************)
(* C2.  No failure of one item aborts the batch: with a well-formed input  *)
(* the script never ends in the outer handler, and the output written      *)
(* holds the records of all the items that can be parsed.                  *)
(***************************************************************************)
C2_ItemFailureNeverAbortsBatch ==
    Len(data) > 0 =>
        /\ pc # "failed"
        /\ pc = "done" =>
              /\ output_file # None
              /\ Len(output_file[1]) = Pos(Len(data))

(***************************************************************************)
(* C3.  An item whose "name" text has no non-empty line is skipped: the    *)
(* result holds records only for the items with at least one line.         *)
(***************************************************************************)
C3_EmptyContentIsSkipped ==
    Len(parsed_restaurants) =
        Cardinality({k \in 1..i : Yields(data[k]) /\ ItemLines(k) # <<>>})

(***************************************************************************)
(* C4.  Processing an object without the "name" key appends no record,     *)
(* prints exactly one diagnostic, which names the position of the item     *)
(* (printed from 1), and goes on to the next item.                         *)
(***************************************************************************)
C4_MissingNameSkippedWithOneDiagnostic ==
    [][(pc = "loop" /\ data[i + 1].kind = "dict" /\ ~data[i + 1].has_name) =>
          /\ parsed_restaurants' = parsed_restaurants
          /\ SelectSeq(SubSeq(stdout', Len(stdout) + 1, Len(stdout')), IsDiagnostic)
                 = <<Message("warning", i + 1)>>
          /\ i' = i + 1
          /\ pc' \in {"loop", "write"}]_vars

\* An object without "name" was passed over and a later item gave a record.
C4_Witness ==
    /\ i >= 2
    /\ data[1] = ItemNoName
    /\ Len(parsed_restaurants) >= 1

(***************************************************************************)
(* C5.  In the serialised output a field that holds no value in any record *)
(* is absent from every record, and a field that holds a value in some     *)
(* record is present in every record.                                      *)
(***************************************************************************)
C5_NullFieldsArePruned ==
    pc = "done" =>
        \A k \in 1..Len(FieldOrder) :
            LET f == FieldOrder[k]
                allNull == \A r \in 1..Len(parsed_restaurants) :
                               IsNullField(parsed_restaurants[r], f)
            IN  \A r \in 1..Len(output_file[1]) :
                    (f \in KeysOf(output_file[1][r])) <=> ~allNull

(***************************************************************************)
(* C6.  The record of an item with a single-string "reviews" payload has a *)
(* reviews list with one review per non-empty trimmed line of the payload. *)
(***************************************************************************)
C6_StringReviewsAreNormalised ==
    \A k \in 1..i :
        (Yields(data[k]) /\ data[k].reviews # None) =>
            LET rec == parsed_restaurants[Pos(k)]
            IN  /\ "reviews" \in DOMAIN rec
                /\ rec["reviews"] = ExpectedReviews(data[k].reviews[1])

(***************************************************************************)
(* C7.  In every record the address is set only if a line contains "Read   *)
(* Reviews", and is then the line before the first such line; the phone    *)
(* number is set only if the address is set and the line before the        *)
(* address line matches the phone pattern, and is then that line.          *)
(***************************************************************************)
C7_AddressAndPhoneComeFromTheAnchor ==
    \A k \in 1..i :
        Yields(data[k]) =>
            LET rec == parsed_restaurants[Pos(k)]
                ls == ItemLines(k)
            IN  /\ rec.address # None =>
                      /\ Anchors(ls) # {}
                      /\ FirstAnchor(ls) > 1
                      /\ rec.address = Some(ls[FirstAnchor(ls) - 1])
                /\ rec.phone_number # None =>
                      /\ rec.address # None
                      /\ FirstAnchor(ls) > 2
                      /\ IsPhone(ls[FirstAnchor(ls) - 2])
                      /\ rec.phone_number = Some(ls[FirstAnchor(ls) - 2])

\* A record with a phone number and an address, from a text with two anchor
\* lines.
C7_Witness ==
    /\ i = 1
    /\ Yields(data[1])
    /\ Len(parsed_restaurants) = 1
    /\ parsed_restaurants[1].phone_number # None
    /\ parsed_restaurants[1].address # None
    /\ Cardinality(Anchors(ItemLines(1))) >= 2

(***************************************************************************)
(* C8.  The record of an item is a function of that item alone, and the    *)
(* result holds the records in the order of the items: whatever came       *)
(* before, the record at the place of item k is the parse of item k's text *)
(* from a new dictionary, and the result holds nothing else.               *)
(***************************************************************************)
C8_RecordIsFunctionOfItemInOrder ==
    /\ Len(parsed_restaurants) = Pos(i)
    /\ \A k \in 1..i :
           Yields(data[k]) =>
               parsed_restaurants[Pos(k)] = ParseName(data[k].name.text)
    /\ \A j, k \in 1..i :
           (Yields(data[j]) /\ data[j] = data[k]) =>
               parsed_restaurants[Pos(j)] = parsed_restaurants[Pos(k)]

\* The same item parsed twice, with an item that was skipped or failed in
\* between, in a run that wrote its output.
C8_Witness ==
    /\ pc = "done"
    /\ \E j, k \in 1..i :
           /\ j < k
           /\ data[j] = data[k]
           /\ Yields(data[j])
           /\ \E m \in (j + 1)..(k - 1) : ~Yields(data[m])

(***************************************************************************)
(* C9.  Without a "Read Reviews" line the address and the phone number are *)
(* unset and the middle block is all the lines from index 3 on: a status   *)
(* line at index 3 is the status, and a "Partner" line next is the partner *)
(* flag.                                                                   *)
(***************************************************************************)
C9_NoAnchorMiddleRunsToTheEnd ==
    \A k \in 1..i :
        (Yields(data[k]) /\ Anchors(ItemLines(k)) = {}) =>
            LET rec == parsed_restaurants[Pos(k)]
                ls == ItemLines(k)
                hasStatus == Len(ls) >= 4 /\ ls[4] \in {ClosedText, OpenNowText}
                next == IF hasStatus THEN 5 ELSE 4
            IN  /\ rec.address = None
                /\ rec.phone_number = None
                /\ hasStatus => rec.status = Some(ls[4])
                /\ (Len(ls) >= next /\ ls[next] = PartnerText) => rec.is_partner

(***************************************************************************)
(* C10.  When the middle span is not empty and holds only a status line    *)
(* and/or a "Partner" line, the cuisines are the empty list and the        *)
(* description is unset (None, not the empty string).                      *)
(***************************************************************************)
C10_EmptyBlobLeavesDescriptionUnset ==
    \A k \in 1..i :
        Yields(data[k]) =>
            LET rec == parsed_restaurants[Pos(k)]
                ls == ItemLines(k)
                stop == end_content_idx(rec, ls)
            IN  (/\ start_content_idx < stop
                 /\ \/ Slice(ls, start_content_idx, stop) = <<PartnerText>>
                    \/ /\ ls[4] \in {ClosedText, OpenNowText}
                       /\ Slice(ls, start_content_idx, stop) \in
                              {<<ls[4]>>, <<ls[4], PartnerText>>})
                => /\ rec.cuisines_features = <<>>
                   /\ rec.description = None

====
